---- MODULE Spec2Model ----
(***************************************************************************)
(* The windowed page cache of useInfinitePaper (uiwwsw/Infinite-pager).    *)
(*                                                                         *)
(* The hook is a React component function: its useState cells are the      *)
(* state, its useCallback handlers are the operations the host calls, and  *)
(* its three useEffect callbacks run after a render whose dependencies     *)
(* changed.  State setters are queued by React and applied at the next     *)
(* render; every setter of the hook is either a plain value or a           *)
(* functional updater of the previous value, so the model applies each     *)
(* one at once to the "latest" value of the cell and keeps, beside it, the *)
(* values the last render saw (rendered), which are the values the         *)
(* handlers and effects close over.                                        *)
(***************************************************************************)
EXTENDS Integers, Sequences, FiniteSets, TLC

\* ------------------------------------------------------------------ bounds
MaxTotalPages == 3
MaxWindowSize == 2
MaxPageSize == 2
MaxThreshold == 1
MaxCalls == 2
MaxPagerPages == 21

VARIABLES
    pageSize, totalPages, windowSize, initialPage, prefetchThresholdPages,
    pageWindow, currentPage, pages, isFetching, maxAccessiblePage,
    pendingJumpPage,
    rendered,      \* the state cells as the last render saw them
    pagesNew,      \* the pages Map was replaced since the last render
    effects,       \* effect callbacks still to run in the current flush
    inflight,      \* fetchPage promises not yet settled
    fetchCalls,    \* fetchPage calls per page since it entered / was reloaded
    last           \* the operation that produced the current state

options == <<pageSize, totalPages, windowSize, initialPage, prefetchThresholdPages>>
cells == <<pageWindow, currentPage, pages, isFetching, maxAccessiblePage>>
vars == <<pageSize, totalPages, windowSize, initialPage, prefetchThresholdPages,
          pageWindow, currentPage, pages, isFetching, maxAccessiblePage,
          pendingJumpPage, rendered, pagesNew, effects, inflight, fetchCalls, last>>

\* ------------------------------------------------------------ pure helpers
Min(a, b) == IF a <= b THEN a ELSE b
Max(a, b) == IF a >= b THEN a ELSE b

\* Math.max(1, windowSize) as every caller of clampWindow passes it
effectiveWindowSize == Max(1, windowSize)

\* clampWindow without the upper clamp of endPage
clampWindowUnbounded(targetPage, total, size) ==
    LET half == size \div 2
        startPage == Max(1, Min(targetPage - half, total - size + 1))
    IN  [startPage |-> startPage, endPage |-> startPage + size - 1]

\* clampWindow centring on the wrong side of the target
clampWindowOffCentre(targetPage, total, size) ==
    LET half == size \div 2
        startPage == Max(1, Min(targetPage + half, total - size + 1))
        endPage == Min(total, startPage + size - 1)
    IN  [startPage |-> startPage, endPage |-> endPage]

\* clampWindow starting one page late
clampWindowLate(targetPage, total, size) ==
    LET half == size \div 2
        startPage == Max(1, Min(targetPage - half + 1, total - size + 1))
        endPage == Min(total, startPage + size - 1)
    IN  [startPage |-> startPage, endPage |-> endPage]

clampWindow(targetPage, total, size) ==
    LET half == size \div 2
        startPage == Max(1, Min(targetPage - half, total - size + 1))
        endPage == Min(total, startPage + size - 1)
    IN  [startPage |-> startPage, endPage |-> endPage]

\* a zero-based page number
pageFromIndexZeroBased(index, size) == index \div size

pageFromIndex(index, size) == (index \div size) + 1

WindowPages(w) == w.startPage .. w.endPage

\* the three shapes of a PageRecord the hook builds (items?, error? optional)
IdleRecord(p) == [page |-> p, status |-> "idle"]
LoadingRecord(p) == [page |-> p, status |-> "loading"]
LoadedRecord(p, items) == [page |-> p, status |-> "loaded", items |-> items]
ErrorRecord(p, error) == [page |-> p, status |-> "error", error |-> error]

\* ---------------------------------------------------------- initial state
Snapshot == [pageWindow |-> pageWindow, currentPage |-> currentPage,
             pages |-> pages, isFetching |-> isFetching,
             maxAccessiblePage |-> maxAccessiblePage]

EmptyPages == [p \in {} |-> IdleRecord(p)]

Init ==
    /\ pageSize \in 1..MaxPageSize
    /\ totalPages \in 0..MaxTotalPages
    /\ windowSize \in 1..MaxWindowSize
    /\ initialPage \in 1..(totalPages + 1)
    /\ prefetchThresholdPages \in 0..MaxThreshold
    /\ pageWindow = clampWindow(initialPage, totalPages, effectiveWindowSize)
    /\ currentPage = initialPage
    /\ pages = EmptyPages
    /\ isFetching = FALSE
    /\ maxAccessiblePage = initialPage
    /\ pendingJumpPage = 0
    /\ rendered = Snapshot
    /\ pagesNew = FALSE
    /\ effects = <<"reconcile", "fetch", "sync">>
    /\ inflight = {}
    /\ fetchCalls = [p \in 1..(MaxTotalPages + 1) |-> 0]
    /\ last = [op |-> "mount"]

\* ------------------------------------------------------ render and effects
\* React re-renders when a state cell was given a value that is not the one
\* it rendered last (a Map built by an updater is always a new value).
NeedsRender == pagesNew \/ Snapshot # rendered

\* effects that depend on the pageWindow object, new at every setPageWindow
WindowDepsChangedAlways == TRUE

WindowDepsChanged ==
    \/ rendered.pageWindow.startPage # pageWindow.startPage
    \/ rendered.pageWindow.endPage # pageWindow.endPage

\* a cleanup that leaves the flag of the run alone
CancelNothing(fs) == fs

\* the cleanup of the fetch effect: cancelled = true for the run it belongs to
Cancel(fs) == {[page |-> f.page, live |-> FALSE] : f \in fs}

\* One render of the hook and the commit that follows it: the render closes
\* over the latest cells, the effects whose dependency lists changed are
\* scheduled in source order, and the cleanup of a re-running effect runs
\* before any effect body.  fetchPage, the remaining dependency of the fetch
\* effect, is taken to be the same function in every render.
Render ==
    /\ effects = <<>>
    /\ NeedsRender
    /\ LET runReconcile == WindowDepsChanged
           runFetch == WindowDepsChanged \/ pagesNew
           runSync == pagesNew
       IN  /\ effects' = (IF runReconcile THEN <<"reconcile">> ELSE <<>>)
                         \o (IF runFetch THEN <<"fetch">> ELSE <<>>)
                         \o (IF runSync THEN <<"sync">> ELSE <<>>)
           /\ inflight' = IF runFetch THEN Cancel(inflight) ELSE inflight
    /\ rendered' = Snapshot
    /\ pagesNew' = FALSE
    /\ last' = [op |-> "render"]
    /\ UNCHANGED <<options, cells, pendingJumpPage, fetchCalls>>

\* a reconcile updater that adds the new pages but drops none
ReconcileKeepAll(prev, w) ==
    [p \in (DOMAIN prev) \cup WindowPages(w) |->
        IF p \in DOMAIN prev THEN prev[p] ELSE IdleRecord(p)]

\* a reconciliation that keeps loaded records of pages outside the window
ReconcileKeepLoaded(prev, w) ==
    [p \in WindowPages(w) \cup {q \in DOMAIN prev : prev[q].status = "loaded"} |->
        IF p \in DOMAIN prev THEN prev[p] ELSE IdleRecord(p)]

\* the updater of the reconcile effect
Reconcile(prev, w) ==
    [p \in WindowPages(w) |-> IF p \in DOMAIN prev THEN prev[p] ELSE IdleRecord(p)]

ReconcileChanged(prev, w) ==
    \/ \E p \in WindowPages(w) : p \notin DOMAIN prev
    \/ Cardinality(DOMAIN prev) # Cardinality(WindowPages(w))

ReconcileEffect ==
    /\ effects # <<>> /\ Head(effects) = "reconcile"
    /\ LET w == rendered.pageWindow
           changed == ReconcileChanged(pages, w)
       IN  /\ pages' = IF changed THEN Reconcile(pages, w) ELSE pages
           /\ pagesNew' = (pagesNew \/ changed)
           /\ fetchCalls' = [p \in DOMAIN fetchCalls |->
                               IF p \in WindowPages(w) /\ p \in DOMAIN pages
                               THEN fetchCalls[p] ELSE 0]
    /\ effects' = Tail(effects)
    /\ last' = [op |-> "reconcile"]
    /\ UNCHANGED <<options, pageWindow, currentPage, isFetching, maxAccessiblePage,
                   pendingJumpPage, rendered, inflight>>

\* a missing set that also holds the page after the window
MissingWithNext(renderedPages, w) ==
    {p \in (DOMAIN renderedPages) \cup {w.endPage + 1} :
        /\ ~(p < w.startPage \/ p > w.endPage + 1)
        /\ \/ p \notin DOMAIN renderedPages
           \/ renderedPages[p].status \in {"idle", "error"}}

\* the pages the fetch effect finds missing in the Map it rendered with
Missing(renderedPages, w) ==
    {p \in DOMAIN renderedPages :
        /\ ~(p < w.startPage \/ p > w.endPage)
        /\ renderedPages[p].status \in {"idle", "error"}}

\* a "loading" updater that spreads the existing record
MarkLoadingSpreading(prev, missing) ==
    [p \in (DOMAIN prev) \cup missing |->
        IF p \notin DOMAIN prev THEN LoadingRecord(p)
        ELSE IF p \in missing THEN [prev[p] EXCEPT !.status = "loading"]
        ELSE prev[p]]

\* the batched "loading" updater of the fetch effect
MarkLoading(prev, missing) ==
    [p \in (DOMAIN prev) \cup missing |->
        IF p \in missing /\ (p \notin DOMAIN prev \/ prev[p].status # "loading")
        THEN LoadingRecord(p) ELSE prev[p]]

MarkLoadingChanged(prev, missing) ==
    \E p \in missing : p \notin DOMAIN prev \/ prev[p].status # "loading"

FetchEffect ==
    /\ effects # <<>> /\ Head(effects) = "fetch"
    /\ LET missing == Missing(rendered.pages, rendered.pageWindow)
           changed == MarkLoadingChanged(pages, missing)
       IN  IF missing = {}
           THEN /\ last' = [op |-> "fetchEffect", missing |-> {}]
                /\ UNCHANGED <<pages, pagesNew, isFetching, inflight, fetchCalls>>
           ELSE /\ pages' = IF changed THEN MarkLoading(pages, missing) ELSE pages
                /\ pagesNew' = (pagesNew \/ changed)
                /\ isFetching' = TRUE
                /\ inflight' = inflight \cup {[page |-> p, live |-> TRUE] : p \in missing}
                /\ fetchCalls' = [p \in DOMAIN fetchCalls |->
                                    IF p \in missing
                                    THEN Min(MaxCalls, fetchCalls[p] + 1)
                                    ELSE fetchCalls[p]]
                /\ last' = [op |-> "fetchEffect", missing |-> missing]
    /\ effects' = Tail(effects)
    /\ UNCHANGED <<options, pageWindow, currentPage, maxAccessiblePage,
                   pendingJumpPage, rendered>>

\* a sync effect that leaves isFetching as the fetch effect set it
SyncEffectSkipped ==
    /\ effects # <<>> /\ Head(effects) = "sync"
    /\ effects' = Tail(effects)
    /\ last' = [op |-> "sync"]
    /\ UNCHANGED <<options, cells, pendingJumpPage, rendered, pagesNew, inflight,
                   fetchCalls>>

SyncEffect ==
    /\ effects # <<>> /\ Head(effects) = "sync"
    /\ isFetching' = (\E p \in DOMAIN rendered.pages : rendered.pages[p].status = "loading")
    /\ effects' = Tail(effects)
    /\ last' = [op |-> "sync"]
    /\ UNCHANGED <<options, pageWindow, currentPage, pages, maxAccessiblePage,
                   pendingJumpPage, rendered, pagesNew, inflight, fetchCalls>>

\* ------------------------------------------------------- fetch completions
\* what fetchPage(p) may resolve to: a full page or one item short
Item(p, i) == <<p, i>>
PageItems(p, n) == [i \in 1..n |-> Item(p, i - 1)]
FetchResults(p) == {PageItems(p, n) : n \in {pageSize, pageSize - 1}}
FetchErrors == {"timeout"}

SetRecord(prev, p, rec) ==
    [q \in (DOMAIN prev) \cup {p} |-> IF q = p THEN rec ELSE prev[q]]

\* the continuation of one fetchPage promise, followed, when it was the last
\* of its Promise.all, by the continuation of the batch
Settle(f, rec, outcome) ==
    /\ effects = <<>>
    /\ f \in inflight
    /\ inflight' = inflight \ {f}
    /\ IF f.live
       THEN /\ pages' = SetRecord(pages, f.page, rec)
            /\ pagesNew' = TRUE
            /\ isFetching' = IF \E g \in inflight \ {f} : g.live
                             THEN isFetching ELSE FALSE
       ELSE UNCHANGED <<pages, pagesNew, isFetching>>
    /\ last' = [op |-> outcome, page |-> f.page, live |-> f.live, record |-> rec]
    /\ UNCHANGED <<options, pageWindow, currentPage, maxAccessiblePage,
                   pendingJumpPage, rendered, effects, fetchCalls>>

FetchResolved ==
    \E f \in inflight : \E items \in FetchResults(f.page) :
        Settle(f, LoadedRecord(f.page, items), "resolved")

FetchRejected ==
    \E f \in inflight : \E error \in FetchErrors :
        Settle(f, ErrorRecord(f.page, error), "rejected")

\* ---------------------------------------------------------------- handlers
\* Handlers are the callbacks of the last render: they read the cells through
\* `rendered` and write them through the setters.  The host calls them from
\* its own events (scroll, click, intersection), one event at a time, after
\* React has rendered and flushed the effects of the previous one.
Settled == effects = <<>> /\ ~NeedsRender

windowOffset == (rendered.pageWindow.startPage - 1) * pageSize

hasNextPage == rendered.maxAccessiblePage < totalPages

\* a jump that returns the offset of the window it leaves
JumpReturnsOldOffset(targetPage, op) ==
    LET clamped == Min(Max(1, targetPage), totalPages)
        desiredWindow == clampWindow(clamped, totalPages, effectiveWindowSize)
    IN  /\ currentPage' = clamped
        /\ pageWindow' = desiredWindow
        /\ maxAccessiblePage' = Max(maxAccessiblePage, clamped)
        /\ pendingJumpPage' = clamped
        /\ last' = [op |-> op, target |-> targetPage,
                    targetGlobalIndex |-> (clamped - 1) * pageSize,
                    targetWindowOffset |-> windowOffset]
        /\ UNCHANGED <<options, pages, isFetching, rendered, pagesNew, effects,
                       inflight, fetchCalls>>

\* a jump that leaves maxAccessiblePage as it was
JumpKeepsMax(targetPage, op) ==
    LET clamped == Min(Max(1, targetPage), totalPages)
        desiredWindow == clampWindow(clamped, totalPages, effectiveWindowSize)
    IN  /\ currentPage' = clamped
        /\ pageWindow' = desiredWindow
        /\ maxAccessiblePage' = maxAccessiblePage
        /\ pendingJumpPage' = clamped
        /\ last' = [op |-> op, target |-> targetPage,
                    targetGlobalIndex |-> (clamped - 1) * pageSize,
                    targetWindowOffset |-> (desiredWindow.startPage - 1) * pageSize]
        /\ UNCHANGED <<options, pages, isFetching, rendered, pagesNew, effects,
                       inflight, fetchCalls>>

\* a jump that also invalidates the record of its target page
JumpReloadsTarget(targetPage, op) ==
    LET clamped == Min(Max(1, targetPage), totalPages)
        desiredWindow == clampWindow(clamped, totalPages, effectiveWindowSize)
    IN  /\ currentPage' = clamped
        /\ pageWindow' = desiredWindow
        /\ maxAccessiblePage' = Max(maxAccessiblePage, clamped)
        /\ pendingJumpPage' = clamped
        /\ pages' = IF clamped \in DOMAIN pages
                     THEN SetRecord(pages, clamped, IdleRecord(clamped)) ELSE pages
        /\ pagesNew' = (pagesNew \/ clamped \in DOMAIN pages)
        /\ last' = [op |-> op, target |-> targetPage,
                    targetGlobalIndex |-> (clamped - 1) * pageSize,
                    targetWindowOffset |-> (desiredWindow.startPage - 1) * pageSize]
        /\ UNCHANGED <<options, isFetching, rendered, effects, inflight, fetchCalls>>

\* the body of scrollToPage, shared by setPage, goToNextPage, onVisibleBottom
Jump(targetPage, op) ==
    LET clamped == Min(Max(1, targetPage), totalPages)
        desiredWindow == clampWindow(clamped, totalPages, effectiveWindowSize)
    IN  /\ currentPage' = clamped
        /\ pageWindow' = desiredWindow
        /\ maxAccessiblePage' = Max(maxAccessiblePage, clamped)
        /\ pendingJumpPage' = clamped
        /\ last' = [op |-> op, target |-> targetPage,
                    targetGlobalIndex |-> (clamped - 1) * pageSize,
                    targetWindowOffset |-> (desiredWindow.startPage - 1) * pageSize]
        /\ UNCHANGED <<options, pages, isFetching, rendered, pagesNew, effects,
                       inflight, fetchCalls>>

JumpTargets == 0..(totalPages + 1)

scrollToPage ==
    /\ Settled
    /\ \E targetPage \in JumpTargets : Jump(targetPage, "scrollToPage")

goToNextPage ==
    /\ Settled
    /\ Jump(rendered.currentPage + 1, "goToNextPage")

\* a sentinel handler that does not wait for the fetches to finish
onVisibleBottomWhileFetching ==
    /\ Settled
    /\ IF ~hasNextPage
       THEN /\ last' = [op |-> "onVisibleBottom", target |-> 0]
            /\ UNCHANGED <<options, cells, pendingJumpPage, rendered, pagesNew,
                           effects, inflight, fetchCalls>>
       ELSE Jump(Min(totalPages, Max(rendered.currentPage + 1,
                                     rendered.maxAccessiblePage + 1)),
                 "onVisibleBottom")

onVisibleBottom ==
    /\ Settled
    /\ IF ~hasNextPage \/ rendered.isFetching
       THEN /\ last' = [op |-> "onVisibleBottom", target |-> 0]
            /\ UNCHANGED <<options, cells, pendingJumpPage, rendered, pagesNew,
                           effects, inflight, fetchCalls>>
       ELSE Jump(Min(totalPages, Max(rendered.currentPage + 1,
                                     rendered.maxAccessiblePage + 1)),
                 "onVisibleBottom")

\* a reload that does not look for the page in the store
reloadPageUnchecked ==
    /\ Settled
    /\ \E page \in 1..(totalPages + 1) :
        /\ pages' = SetRecord(pages, page, IdleRecord(page))
        /\ pagesNew' = TRUE
        /\ fetchCalls' = [fetchCalls EXCEPT ![page] = 0]
        /\ last' = [op |-> "reloadPage", page |-> page]
    /\ UNCHANGED <<options, pageWindow, currentPage, isFetching, maxAccessiblePage,
                   pendingJumpPage, rendered, effects, inflight>>

reloadPage ==
    /\ Settled
    /\ \E page \in 1..(totalPages + 1) :
        /\ IF page \in DOMAIN pages
           THEN /\ pages' = SetRecord(pages, page, IdleRecord(page))
                /\ pagesNew' = TRUE
                /\ fetchCalls' = [fetchCalls EXCEPT ![page] = 0]
           ELSE UNCHANGED <<pages, pagesNew, fetchCalls>>
        /\ last' = [op |-> "reloadPage", page |-> page]
    /\ UNCHANGED <<options, pageWindow, currentPage, isFetching, maxAccessiblePage,
                   pendingJumpPage, rendered, effects, inflight>>

\* a visible-range computation that jumps when the indices are global
VisibleRangeJumpOnGlobal(visibleStartIndex, visibleStopIndex, indexType) ==
    LET w == rendered.pageWindow
        windowLength == windowSize * pageSize
        startFromWindow == windowOffset + visibleStartIndex
        stopFromWindow == windowOffset + visibleStopIndex
        indicesFitWindow ==
            /\ pageFromIndex(startFromWindow, pageSize) >= w.startPage
            /\ pageFromIndex(stopFromWindow, pageSize) <= w.endPage
        indicesAreGlobal ==
            CASE indexType = "global" -> TRUE
              [] indexType = "relative" -> FALSE
              [] OTHER -> \/ ~indicesFitWindow
                          \/ visibleStartIndex >= windowLength
                          \/ visibleStopIndex >= windowLength
        globalStart == IF indicesAreGlobal THEN visibleStartIndex ELSE startFromWindow
        globalStop == IF indicesAreGlobal THEN visibleStopIndex ELSE stopFromWindow
        topPage == pageFromIndex(globalStart, pageSize)
        bottomPage == pageFromIndex(globalStop, pageSize)
        pagesFitWindow == ~indicesAreGlobal
        pinned == /\ pendingJumpPage # 0
                  /\ pendingJumpPage >= topPage
                  /\ pendingJumpPage <= bottomPage
        nextPage == IF pinned THEN pendingJumpPage ELSE topPage
        nearTop == topPage < w.startPage + prefetchThresholdPages
        nearBottom == bottomPage > w.endPage - prefetchThresholdPages
        jumpWindow == clampWindow(nextPage, totalPages, effectiveWindowSize)
        branch ==
            CASE ~pagesFitWindow ->
                    IF jumpWindow.startPage # w.startPage \/ jumpWindow.endPage # w.endPage
                    THEN "jump" ELSE "jumpSame"
              [] pagesFitWindow /\ nearTop /\ w.startPage > 1 -> "slideUp"
              [] pagesFitWindow /\ ~(nearTop /\ w.startPage > 1)
                    /\ nearBottom /\ w.endPage < totalPages -> "slideDown"
              [] OTHER -> "stay"
    IN  [indicesAreGlobal |-> indicesAreGlobal,
         globalStart |-> globalStart, globalStop |-> globalStop,
         topPage |-> topPage, bottomPage |-> bottomPage,
         shouldJump |-> ~pagesFitWindow, pinned |-> pinned, nextPage |-> nextPage,
         furthestVisiblePage |-> Min(totalPages, Max(topPage, bottomPage)),
         branch |-> branch,
         desiredWindow |->
            CASE branch = "jump" -> jumpWindow
              [] branch = "slideUp" ->
                    clampWindow(Max(1, topPage), totalPages, effectiveWindowSize)
              [] branch = "slideDown" ->
                    clampWindow(Min(totalPages, bottomPage), totalPages, effectiveWindowSize)
              [] OTHER -> pageWindow]

\* a visible-range computation whose edge tests include the threshold page
VisibleRangeInclusiveEdges(visibleStartIndex, visibleStopIndex, indexType) ==
    LET w == rendered.pageWindow
        windowLength == windowSize * pageSize
        startFromWindow == windowOffset + visibleStartIndex
        stopFromWindow == windowOffset + visibleStopIndex
        indicesFitWindow ==
            /\ pageFromIndex(startFromWindow, pageSize) >= w.startPage
            /\ pageFromIndex(stopFromWindow, pageSize) <= w.endPage
        indicesAreGlobal ==
            CASE indexType = "global" -> TRUE
              [] indexType = "relative" -> FALSE
              [] OTHER -> \/ ~indicesFitWindow
                          \/ visibleStartIndex >= windowLength
                          \/ visibleStopIndex >= windowLength
        globalStart == IF indicesAreGlobal THEN visibleStartIndex ELSE startFromWindow
        globalStop == IF indicesAreGlobal THEN visibleStopIndex ELSE stopFromWindow
        topPage == pageFromIndex(globalStart, pageSize)
        bottomPage == pageFromIndex(globalStop, pageSize)
        pagesFitWindow == topPage >= w.startPage /\ bottomPage <= w.endPage
        pinned == /\ pendingJumpPage # 0
                  /\ pendingJumpPage >= topPage
                  /\ pendingJumpPage <= bottomPage
        nextPage == IF pinned THEN pendingJumpPage ELSE topPage
        nearTop == topPage <= w.startPage + prefetchThresholdPages
        nearBottom == bottomPage >= w.endPage - prefetchThresholdPages
        jumpWindow == clampWindow(nextPage, totalPages, effectiveWindowSize)
        branch ==
            CASE ~pagesFitWindow ->
                    IF jumpWindow.startPage # w.startPage \/ jumpWindow.endPage # w.endPage
                    THEN "jump" ELSE "jumpSame"
              [] pagesFitWindow /\ nearTop /\ w.startPage > 1 -> "slideUp"
              [] pagesFitWindow /\ ~(nearTop /\ w.startPage > 1)
                    /\ nearBottom /\ w.endPage < totalPages -> "slideDown"
              [] OTHER -> "stay"
    IN  [indicesAreGlobal |-> indicesAreGlobal,
         globalStart |-> globalStart, globalStop |-> globalStop,
         topPage |-> topPage, bottomPage |-> bottomPage,
         shouldJump |-> ~pagesFitWindow, pinned |-> pinned, nextPage |-> nextPage,
         furthestVisiblePage |-> Min(totalPages, Max(topPage, bottomPage)),
         branch |-> branch,
         desiredWindow |->
            CASE branch = "jump" -> jumpWindow
              [] branch = "slideUp" ->
                    clampWindow(Max(1, topPage), totalPages, effectiveWindowSize)
              [] branch = "slideDown" ->
                    clampWindow(Min(totalPages, bottomPage), totalPages, effectiveWindowSize)
              [] OTHER -> pageWindow]

\* a visible-range computation whose auto detection only tests the pages
VisibleRangeAutoFitsOnly(visibleStartIndex, visibleStopIndex, indexType) ==
    LET w == rendered.pageWindow
        windowLength == windowSize * pageSize
        startFromWindow == windowOffset + visibleStartIndex
        stopFromWindow == windowOffset + visibleStopIndex
        indicesFitWindow ==
            /\ pageFromIndex(startFromWindow, pageSize) >= w.startPage
            /\ pageFromIndex(stopFromWindow, pageSize) <= w.endPage
        indicesAreGlobal ==
            CASE indexType = "global" -> TRUE
              [] indexType = "relative" -> FALSE
              [] OTHER -> ~indicesFitWindow
        globalStart == IF indicesAreGlobal THEN visibleStartIndex ELSE startFromWindow
        globalStop == IF indicesAreGlobal THEN visibleStopIndex ELSE stopFromWindow
        topPage == pageFromIndex(globalStart, pageSize)
        bottomPage == pageFromIndex(globalStop, pageSize)
        pagesFitWindow == topPage >= w.startPage /\ bottomPage <= w.endPage
        pinned == /\ pendingJumpPage # 0
                  /\ pendingJumpPage >= topPage
                  /\ pendingJumpPage <= bottomPage
        nextPage == IF pinned THEN pendingJumpPage ELSE topPage
        nearTop == topPage < w.startPage + prefetchThresholdPages
        nearBottom == bottomPage > w.endPage - prefetchThresholdPages
        jumpWindow == clampWindow(nextPage, totalPages, effectiveWindowSize)
        branch ==
            CASE ~pagesFitWindow ->
                    IF jumpWindow.startPage # w.startPage \/ jumpWindow.endPage # w.endPage
                    THEN "jump" ELSE "jumpSame"
              [] pagesFitWindow /\ nearTop /\ w.startPage > 1 -> "slideUp"
              [] pagesFitWindow /\ ~(nearTop /\ w.startPage > 1)
                    /\ nearBottom /\ w.endPage < totalPages -> "slideDown"
              [] OTHER -> "stay"
    IN  [indicesAreGlobal |-> indicesAreGlobal,
         globalStart |-> globalStart, globalStop |-> globalStop,
         topPage |-> topPage, bottomPage |-> bottomPage,
         shouldJump |-> ~pagesFitWindow, pinned |-> pinned, nextPage |-> nextPage,
         furthestVisiblePage |-> Min(totalPages, Max(topPage, bottomPage)),
         branch |-> branch,
         desiredWindow |->
            CASE branch = "jump" -> jumpWindow
              [] branch = "slideUp" ->
                    clampWindow(Max(1, topPage), totalPages, effectiveWindowSize)
              [] branch = "slideDown" ->
                    clampWindow(Min(totalPages, bottomPage), totalPages, effectiveWindowSize)
              [] OTHER -> pageWindow]

\* What one handleVisibleRange call computes from its arguments and the
\* rendered cells, in the order of the source.
VisibleRange(visibleStartIndex, visibleStopIndex, indexType) ==
    LET w == rendered.pageWindow
        windowLength == windowSize * pageSize
        startFromWindow == windowOffset + visibleStartIndex
        stopFromWindow == windowOffset + visibleStopIndex
        indicesFitWindow ==
            /\ pageFromIndex(startFromWindow, pageSize) >= w.startPage
            /\ pageFromIndex(stopFromWindow, pageSize) <= w.endPage
        indicesAreGlobal ==
            CASE indexType = "global" -> TRUE
              [] indexType = "relative" -> FALSE
              [] OTHER -> \/ ~indicesFitWindow
                          \/ visibleStartIndex >= windowLength
                          \/ visibleStopIndex >= windowLength
        globalStart == IF indicesAreGlobal THEN visibleStartIndex ELSE startFromWindow
        globalStop == IF indicesAreGlobal THEN visibleStopIndex ELSE stopFromWindow
        topPage == pageFromIndex(globalStart, pageSize)
        bottomPage == pageFromIndex(globalStop, pageSize)
        pagesFitWindow == topPage >= w.startPage /\ bottomPage <= w.endPage
        pinned == /\ pendingJumpPage # 0
                  /\ pendingJumpPage >= topPage
                  /\ pendingJumpPage <= bottomPage
        nextPage == IF pinned THEN pendingJumpPage ELSE topPage
        nearTop == topPage < w.startPage + prefetchThresholdPages
        nearBottom == bottomPage > w.endPage - prefetchThresholdPages
        jumpWindow == clampWindow(nextPage, totalPages, effectiveWindowSize)
        branch ==
            CASE ~pagesFitWindow ->
                    IF jumpWindow.startPage # w.startPage \/ jumpWindow.endPage # w.endPage
                    THEN "jump" ELSE "jumpSame"
              [] pagesFitWindow /\ nearTop /\ w.startPage > 1 -> "slideUp"
              [] pagesFitWindow /\ ~(nearTop /\ w.startPage > 1)
                    /\ nearBottom /\ w.endPage < totalPages -> "slideDown"
              [] OTHER -> "stay"
    IN  [indicesAreGlobal |-> indicesAreGlobal,
         globalStart |-> globalStart, globalStop |-> globalStop,
         topPage |-> topPage, bottomPage |-> bottomPage,
         shouldJump |-> ~pagesFitWindow, pinned |-> pinned, nextPage |-> nextPage,
         furthestVisiblePage |-> Min(totalPages, Max(topPage, bottomPage)),
         branch |-> branch,
         desiredWindow |->
            CASE branch = "jump" -> jumpWindow
              [] branch = "slideUp" ->
                    clampWindow(Max(1, topPage), totalPages, effectiveWindowSize)
              [] branch = "slideDown" ->
                    clampWindow(Min(totalPages, bottomPage), totalPages, effectiveWindowSize)
              [] OTHER -> pageWindow]

IndexTypes == {"auto", "global", "relative"}
VisibleIndices == (0 - 1)..(totalPages * pageSize)

\* a handler that pins without consuming the pending jump target
handleVisibleRangeKeepsPending ==
    /\ Settled
    /\ \E visibleStartIndex \in VisibleIndices, visibleStopIndex \in VisibleIndices,
          indexType \in IndexTypes :
        \E r \in {VisibleRange(visibleStartIndex, visibleStopIndex, indexType)} :
            /\ pendingJumpPage' = pendingJumpPage
            /\ currentPage' = IF r.nextPage # rendered.currentPage
                              THEN r.nextPage ELSE currentPage
            /\ maxAccessiblePage' = Max(maxAccessiblePage, r.furthestVisiblePage)
            /\ pageWindow' = r.desiredWindow
            /\ last' = [op |-> "handleVisibleRange",
                        indexType |-> indexType,
                        indicesAreGlobal |-> r.indicesAreGlobal,
                        globalStart |-> r.globalStart, globalStop |-> r.globalStop,
                        pinned |-> r.pinned, branch |-> r.branch,
                        onPageChange |-> IF r.nextPage # rendered.currentPage
                                         THEN <<r.nextPage>> ELSE <<>>]
    /\ UNCHANGED <<options, pages, isFetching, rendered, pagesNew, effects,
                   inflight, fetchCalls>>

\* a handler that drops the pending jump at every report
handleVisibleRangeForgetsPending ==
    /\ Settled
    /\ \E visibleStartIndex \in VisibleIndices, visibleStopIndex \in VisibleIndices,
          indexType \in IndexTypes :
        \E r \in {VisibleRange(visibleStartIndex, visibleStopIndex, indexType)} :
            /\ pendingJumpPage' = 0
            /\ currentPage' = IF r.nextPage # rendered.currentPage
                              THEN r.nextPage ELSE currentPage
            /\ maxAccessiblePage' = Max(maxAccessiblePage, r.furthestVisiblePage)
            /\ pageWindow' = r.desiredWindow
            /\ last' = [op |-> "handleVisibleRange",
                        indexType |-> indexType,
                        indicesAreGlobal |-> r.indicesAreGlobal,
                        globalStart |-> r.globalStart, globalStop |-> r.globalStop,
                        pinned |-> r.pinned, branch |-> r.branch,
                        onPageChange |-> IF r.nextPage # rendered.currentPage
                                         THEN <<r.nextPage>> ELSE <<>>]
    /\ UNCHANGED <<options, pages, isFetching, rendered, pagesNew, effects,
                   inflight, fetchCalls>>

handleVisibleRange ==
    /\ Settled
    /\ \E visibleStartIndex \in VisibleIndices, visibleStopIndex \in VisibleIndices,
          indexType \in IndexTypes :
        \E r \in {VisibleRange(visibleStartIndex, visibleStopIndex, indexType)} :
            /\ pendingJumpPage' = IF r.pinned THEN 0 ELSE pendingJumpPage
            /\ currentPage' = IF r.nextPage # rendered.currentPage
                              THEN r.nextPage ELSE currentPage
            /\ maxAccessiblePage' = Max(maxAccessiblePage, r.furthestVisiblePage)
            /\ pageWindow' = r.desiredWindow
            /\ last' = [op |-> "handleVisibleRange",
                        indexType |-> indexType,
                        indicesAreGlobal |-> r.indicesAreGlobal,
                        globalStart |-> r.globalStart, globalStop |-> r.globalStop,
                        pinned |-> r.pinned, branch |-> r.branch,
                        onPageChange |-> IF r.nextPage # rendered.currentPage
                                         THEN <<r.nextPage>> ELSE <<>>]
    /\ UNCHANGED <<options, pages, isFetching, rendered, pagesNew, effects,
                   inflight, fetchCalls>>

\* ---------------------------------------------------------- derived values
\* The items memo of the last render.  item is record?.items?.[i]: a
\* one-element sequence when the record holds an item at i, empty when the
\* lookup gives undefined.
SlotItem(page, i) ==
    IF /\ page \in DOMAIN rendered.pages
       /\ "items" \in DOMAIN rendered.pages[page]
       /\ i + 1 <= Len(rendered.pages[page].items)
    THEN <<rendered.pages[page].items[i + 1]>>
    ELSE <<>>

\* a slot that shows every slot of a loaded page as filled
SlotTrustsLoaded(page, i, offset) ==
    [page |-> page, indexInPage |-> i, globalIndex |-> windowOffset + offset,
     item |-> SlotItem(page, i),
     isPlaceholder |-> \/ page \notin DOMAIN rendered.pages
                       \/ rendered.pages[page].status # "loaded"]

Slot(page, i, offset) ==
    [page |-> page, indexInPage |-> i, globalIndex |-> windowOffset + offset,
     item |-> SlotItem(page, i),
     isPlaceholder |-> \/ page \notin DOMAIN rendered.pages
                       \/ rendered.pages[page].status # "loaded"
                       \/ SlotItem(page, i) = <<>>]

\* the inner loop with an offset that starts again at every page
PageSlotsRestarting(page, offset) ==
    [j \in 1..pageSize |-> Slot(page, j - 1, j - 1)]

\* the inner loop: pageSize slots, offset counting on
PageSlots(page, offset) ==
    [j \in 1..pageSize |-> Slot(page, j - 1, offset + j - 1)]

RECURSIVE ItemsFrom(_, _)
ItemsFrom(page, offset) ==
    IF page > rendered.pageWindow.endPage
    THEN <<>>
    ELSE PageSlots(page, offset) \o ItemsFrom(page + 1, offset + pageSize)

items == ItemsFrom(rendered.pageWindow.startPage, 0)

\* ------------------------------------------------------------- pagination
maxSlots == 7

EllipsisItem == [type |-> "ellipsis"]

PageItem(page, clampedCurrent) ==
    [type |-> "page", page |-> page, isCurrent |-> (page = clampedCurrent)]

\* addPage for page = from .. to
AddPages(from, to, clampedCurrent) ==
    [k \in 1..(to - from + 1) |-> PageItem(from + k - 1, clampedCurrent)]

\* a prev item whose target is not kept at page 1
PrevItemUnfloored(clampedCurrent) ==
    [type |-> "prev", page |-> clampedCurrent - 1, disabled |-> (clampedCurrent <= 1)]

PrevItem(clampedCurrent) ==
    [type |-> "prev", page |-> Max(1, clampedCurrent - 1),
     disabled |-> (clampedCurrent <= 1)]

NextItem(clampedCurrent, total) ==
    [type |-> "next", page |-> Min(total, clampedCurrent + 1),
     disabled |-> (clampedCurrent >= total)]

\* the truncation with the tail starting one page early
MiddleItemsEarlyTail(clampedCurrent, total) ==
    IF total <= maxSlots
    THEN AddPages(1, total, clampedCurrent)
    ELSE IF clampedCurrent <= 4
    THEN AddPages(1, 5, clampedCurrent) \o <<EllipsisItem>>
            \o AddPages(total, total, clampedCurrent)
    ELSE IF clampedCurrent >= total - 4
    THEN AddPages(1, 1, clampedCurrent) \o <<EllipsisItem>>
            \o AddPages(total - 4, total, clampedCurrent)
    ELSE AddPages(1, 1, clampedCurrent) \o <<EllipsisItem>>
            \o AddPages(clampedCurrent - 1, clampedCurrent + 1, clampedCurrent)
            \o <<EllipsisItem>> \o AddPages(total, total, clampedCurrent)

\* the items between prev and next
MiddleItems(clampedCurrent, total) ==
    IF total <= maxSlots
    THEN AddPages(1, total, clampedCurrent)
    ELSE IF clampedCurrent <= 4
    THEN AddPages(1, 5, clampedCurrent) \o <<EllipsisItem>>
            \o AddPages(total, total, clampedCurrent)
    ELSE IF clampedCurrent >= total - 3
    THEN AddPages(1, 1, clampedCurrent) \o <<EllipsisItem>>
            \o AddPages(total - 4, total, clampedCurrent)
    ELSE AddPages(1, 1, clampedCurrent) \o <<EllipsisItem>>
            \o AddPages(clampedCurrent - 1, clampedCurrent + 1, clampedCurrent)
            \o <<EllipsisItem>> \o AddPages(total, total, clampedCurrent)

\* a builder that marks the current page without clamping it
buildPaginationUnclamped(current, maxAccessible) ==
    IF maxAccessible < 1
    THEN <<>>
    ELSE LET clampedCurrent == Min(Max(1, current), maxAccessible)
         IN  <<PrevItem(clampedCurrent)>>
                \o MiddleItems(current, maxAccessible)
                \o <<NextItem(clampedCurrent, maxAccessible)>>

buildAmazonStylePagination(current, maxAccessible) ==
    IF maxAccessible < 1
    THEN <<>>
    ELSE LET clampedCurrent == Min(Max(1, current), maxAccessible)
         IN  <<PrevItem(clampedCurrent)>>
                \o MiddleItems(clampedCurrent, maxAccessible)
                \o <<NextItem(clampedCurrent, maxAccessible)>>

\* the paginationItems memo of the last render
paginationItems ==
    buildAmazonStylePagination(rendered.currentPage, rendered.maxAccessiblePage)

\* the memo being computed for the values of the render
PaginationMemo ==
    /\ effects = <<>>
    /\ last.op # "paginationItems"
    /\ last' = [op |-> "paginationItems", items |-> paginationItems]
    /\ UNCHANGED <<options, cells, pendingJumpPage, rendered, pagesNew, effects,
                   inflight, fetchCalls>>

\* ------------------------------------------------- useInfinitePagination
\* The small hook keeps one cell, currentPage, and is modelled on the
\* variables currentPage, totalPages and initialPage; the others are not
\* its state and stay as they start.  NotANumber stands for the argument NaN,
\* a value no page arithmetic produces.
NotANumber == 0 - 1000

\* a clamp without the upper limit
clampPageUnbounded(page, total) ==
    IF page = NotANumber THEN 1 ELSE Max(1, page)

clampPage(page, total) ==
    IF page = NotANumber THEN 1 ELSE Min(Max(1, page), Max(1, total))

PageArguments == ((0 - 1)..(MaxTotalPages + 2)) \cup {NotANumber}

\* setCurrentPage with an updater that calls emitChange when the page changes
SetCurrentPage(next, op, argument) ==
    /\ currentPage' = next
    /\ last' = [op |-> op, argument |-> argument,
                onPageChange |-> IF next = currentPage THEN <<>> ELSE <<next>>]
    /\ UNCHANGED <<options, pageWindow, pages, isFetching, maxAccessiblePage,
                   pendingJumpPage, rendered, pagesNew, effects, inflight,
                   fetchCalls>>

paginationSetPage ==
    \E page \in PageArguments :
        SetCurrentPage(clampPage(page, totalPages), "setPage", page)

paginationGoToNextPage ==
    SetCurrentPage(clampPage(currentPage + 1, totalPages), "goToNextPage", 0)

paginationOnVisibleBottom ==
    SetCurrentPage(clampPage(currentPage + 1, totalPages), "onVisibleBottom", 0)

\* ---------------------------------------------------------- specifications
Next ==
    \/ Render
    \/ ReconcileEffect
    \/ FetchEffect
    \/ SyncEffect
    \/ FetchResolved
    \/ FetchRejected
    \/ scrollToPage
    \/ goToNextPage
    \/ onVisibleBottom
    \/ reloadPage
    \/ handleVisibleRange

Spec == Init /\ [][Next]_vars

\* The cache and its fetches, with the window driven by the jump handlers.
\* handleVisibleRange reaches the cache only through setPageWindow, with
\* windows clampWindow also gives scrollToPage; leaving it out keeps
\* currentPage and pendingJumpPage from multiplying the cache states.  The
\* two options only handleVisibleRange reads are fixed.
FetchInit ==
    /\ Init
    /\ pageSize = MaxPageSize
    /\ prefetchThresholdPages = MaxThreshold

FetchNext ==
    \/ Render
    \/ ReconcileEffect
    \/ FetchEffect
    \/ SyncEffect
    \/ FetchResolved
    \/ FetchRejected
    \/ scrollToPage
    \/ goToNextPage
    \/ onVisibleBottom
    \/ reloadPage

FetchSpec == FetchInit /\ [][FetchNext]_vars

\* The viewport mapping: every handler that moves the window, over every
\* option, with fetchPage promises that stay pending (the hook sets no
\* timeout), which keeps the records of the cache from multiplying the
\* viewport states.
ViewNext ==
    \/ Render
    \/ ReconcileEffect
    \/ FetchEffect
    \/ SyncEffect
    \/ scrollToPage
    \/ goToNextPage
    \/ onVisibleBottom
    \/ handleVisibleRange

ViewSpec == Init /\ [][ViewNext]_vars
\* Mount followed by no host event, with every fetchPage promise resolving:
\* React runs a scheduled render and its effects, and a promise that is
\* going to resolve does resolve.
QuietNext ==
    \/ Render
    \/ ReconcileEffect
    \/ FetchEffect
    \/ SyncEffect
    \/ FetchResolved

LiveSpec ==
    /\ Init
    /\ [][QuietNext]_vars
    /\ WF_vars(Render)
    /\ WF_vars(ReconcileEffect)
    /\ WF_vars(FetchEffect)
    /\ WF_vars(SyncEffect)
    /\ WF_vars(FetchResolved)

\* Manual reloads of a mounted hook whose window stays where it is: React
\* runs a scheduled render and its effects, and every fetchPage promise
\* settles; the host reloads when it likes.
ReloadNext ==
    \/ Render
    \/ ReconcileEffect
    \/ FetchEffect
    \/ SyncEffect
    \/ FetchResolved
    \/ FetchRejected
    \/ reloadPage

ReloadSpec ==
    /\ FetchInit
    /\ [][ReloadNext]_vars
    /\ WF_vars(Render)
    /\ WF_vars(ReconcileEffect)
    /\ WF_vars(FetchEffect)
    /\ WF_vars(SyncEffect)
    /\ WF_vars(FetchResolved \/ FetchRejected)

\* The pagination builder on its own, its two arguments drawn from 0 to
\* MaxPagerPages (+ 1 for the current page): a render of a hook with
\* MaxPagerPages pages, at rest with the page of its window loading.
PagerInit ==
    /\ pageSize = 1
    /\ totalPages = MaxPagerPages
    /\ windowSize = 1
    /\ initialPage = 1
    /\ prefetchThresholdPages = 0
    /\ currentPage \in 0..(MaxPagerPages + 1)
    /\ maxAccessiblePage \in 0..MaxPagerPages
    /\ pageWindow = clampWindow(currentPage, totalPages, effectiveWindowSize)
    /\ pages = [p \in WindowPages(pageWindow) |-> LoadingRecord(p)]
    /\ isFetching = TRUE
    /\ pendingJumpPage = 0
    /\ rendered = Snapshot
    /\ pagesNew = FALSE
    /\ effects = <<>>
    /\ inflight = {}
    /\ fetchCalls = [p \in 1..(MaxTotalPages + 1) |-> 0]
    /\ last = [op |-> "render"]

PagerNext == PaginationMemo

PagerSpec == PagerInit /\ [][PagerNext]_vars

\* useInfinitePagination with any totalPages and any initialPage.
PaginationInit ==
    /\ pageSize = 1
    /\ totalPages \in 0..MaxTotalPages
    /\ windowSize = 1
    /\ initialPage \in PageArguments
    /\ prefetchThresholdPages = 0
    /\ currentPage = clampPage(initialPage, totalPages)
    /\ maxAccessiblePage = currentPage
    /\ pageWindow = clampWindow(currentPage, totalPages, effectiveWindowSize)
    /\ pages = EmptyPages
    /\ isFetching = FALSE
    /\ pendingJumpPage = 0
    /\ rendered = Snapshot
    /\ pagesNew = FALSE
    /\ effects = <<>>
    /\ inflight = {}
    /\ fetchCalls = [p \in 1..(MaxTotalPages + 1) |-> 0]
    /\ last = [op |-> "mount"]

PaginationNext ==
    \/ paginationSetPage
    \/ paginationGoToNextPage
    \/ paginationOnVisibleBottom

PaginationSpec == PaginationInit /\ [][PaginationNext]_vars

\* ------------------------------------------------------------------ claims
Tracked == DOMAIN pages

\* C1: with totalPages >= 1 the window is a non-empty range inside
\* [1, totalPages] of at most windowSize pages, in every reachable state.
WindowInsideDataset ==
    totalPages >= 1 =>
        /\ 1 <= pageWindow.startPage
        /\ pageWindow.startPage <= pageWindow.endPage
        /\ pageWindow.endPage <= totalPages
        /\ pageWindow.endPage - pageWindow.startPage + 1 <= windowSize

\* C1 witness: a visible-range report has just jumped the window away from page 1
WindowInsideDatasetWitness ==
    /\ totalPages >= 1
    /\ last.op = "handleVisibleRange"
    /\ last.branch = "jump"
    /\ pageWindow.startPage > 1
    /\ pageWindow.endPage = totalPages
\* C2: the reconcile effect leaves exactly the pages of the window tracked and
\* keeps the record of every page that was tracked and stays in range; the
\* tracked pages are at all times one range of at most windowSize pages.
TrackedIsOneRange ==
    /\ Cardinality(Tracked) <= windowSize
    /\ \A p \in Tracked, q \in Tracked : \A m \in p..q : m \in Tracked

ReconcileAlignsStore ==
    /\ [](TrackedIsOneRange)
    /\ [][(last'.op = "reconcile") =>
            /\ DOMAIN pages' = WindowPages(pageWindow')
            /\ \A p \in Tracked \cap DOMAIN pages' : pages'[p] = pages[p]]_vars

\* C2 witness: a reconciliation has kept a loaded page and added an idle one
ReconcileAlignsStoreWitness ==
    /\ last.op = "reconcile"
    /\ \E p \in Tracked : pages[p].status = "loaded"
    /\ \E p \in Tracked : pages[p].status = "idle"
    /\ pageWindow.startPage > 1

\* C3: between a page's entry into the store and its eviction, and without a
\* reloadPage for it, fetchPage is called for it at most once.
FetchedAtMostOnce == \A p \in DOMAIN fetchCalls : fetchCalls[p] <= 1

\* C4: the completion of a fetch whose page has left the window, or is no
\* longer tracked, leaves the page store as it was.
StaleCompletionIgnored ==
    [][(/\ last'.op \in {"resolved", "rejected"}
        /\ \/ last'.page \notin WindowPages(pageWindow)
           \/ last'.page \notin Tracked)
       => pages' = pages]_vars

\* C4 witness: a fetch has resolved for a page evicted while it was in flight
StaleCompletionIgnoredWitness ==
    /\ last.op = "resolved"
    /\ last.page \notin WindowPages(pageWindow)
    /\ last.page \notin Tracked
    /\ Tracked # {}

\* C5: a fetch that succeeds for a page still tracked as loading makes the
\* record of that page loaded with the items the fetch returned.
ResolvedFetchCommits ==
    [][(/\ last'.op = "resolved"
        /\ last'.page \in Tracked
        /\ pages[last'.page].status = "loading")
       => /\ last'.page \in DOMAIN pages'
          /\ pages'[last'.page] = last'.record]_vars
\* C6: from mount, with every fetch resolving and no host event, the hook
\* comes to rest with no tracked page idle or loading and isFetching false.
Quiescent ==
    /\ Settled
    /\ ~isFetching
    /\ \A p \in Tracked : pages[p].status \notin {"idle", "loading"}

EventuallyQuiescent == <>Quiescent

\* C7: a failed fetch changes no record but that of its own page, and the
\* fetches of its batch that are still in flight stay uncancelled until they
\* settle, so that they commit their own results.
FailureIsolated ==
    /\ [][(last'.op = "rejected") =>
            \A q \in Tracked \ {last'.page} :
                q \in DOMAIN pages' /\ pages'[q] = pages[q]]_vars
    /\ [][(last.op = "rejected" /\ last.live) =>
            \A g \in inflight :
                g.live => \/ g \in inflight'
                          \/ /\ last'.op \in {"resolved", "rejected"}
                             /\ last'.page = g.page
                             /\ last'.live]_vars

\* C8: the fetch effect never calls fetchPage for a page whose record has
\* status error; only reloadPage brings such a page back to a fetch.
NoAutomaticRetry ==
    [][(last'.op = "fetchEffect") =>
            \A p \in last'.missing : rendered.pages[p].status # "error"]_vars

\* C9: maxAccessiblePage is at most totalPages in every state, the initial
\* one included, and never decreases.
MaxAccessibleBoundedMonotone ==
    /\ [](maxAccessiblePage <= totalPages)
    /\ [][maxAccessiblePage' >= maxAccessiblePage]_vars

\* C10: with totalPages >= 1, the window right after scrollToPage(p) contains
\* the page p clamped into [1, totalPages].
JumpWindowHoldsTarget ==
    (totalPages >= 1 /\ last.op = "scrollToPage") =>
        LET clamped == Min(Max(1, last.target), totalPages)
        IN  /\ pageWindow.startPage <= clamped
            /\ clamped <= pageWindow.endPage

\* C10 witness: a jump past the last page has moved the window to the end
JumpWindowHoldsTargetWitness ==
    /\ totalPages >= 2
    /\ last.op = "scrollToPage"
    /\ last.target = totalPages + 1
    /\ pageWindow.startPage > 1
    /\ pageWindow.endPage = totalPages
\* C11: scrollToPage for the page an immediately preceding jump made current
\* changes neither pageWindow, currentPage, maxAccessiblePage nor any page
\* record, and leaves nothing to render and no effect to run, so that no
\* fetchPage call follows from it.  (pendingJumpPage holds the clamped target
\* of the last jump as long as no visible-range report consumed it.)
RepeatedJumpIdempotent ==
    [][(/\ last'.op = "scrollToPage"
        /\ pendingJumpPage # 0
        /\ Min(Max(1, last'.target), totalPages) = pendingJumpPage
        /\ rendered.currentPage = pendingJumpPage)
       => /\ cells' = cells
          /\ inflight' = inflight
          /\ fetchCalls' = fetchCalls
          /\ effects' = <<>>
          /\ ~NeedsRender']_vars

\* C11 witness: a scrollToPage to the current page has returned with a loaded
\* page in the store and nothing left to render
RepeatedJumpIdempotentWitness ==
    /\ last.op = "scrollToPage"
    /\ Settled
    /\ pendingJumpPage # 0
    /\ Min(Max(1, last.target), totalPages) = currentPage
    /\ pageWindow.startPage > 1
    /\ \E p \in Tracked : pages[p].status = "loaded"
\* the pages a visible-range report resolved to, from the indices it resolved
ReportTop(l) == (l.globalStart \div pageSize) + 1
ReportBottom(l) == (l.globalStop \div pageSize) + 1
ReportUncovered(l, w) == ReportTop(l) < w.startPage \/ ReportBottom(l) > w.endPage

\* the example of C12: pageSize 3, totalPages 4, windowSize 2, window [1,2]
JumpExample ==
    /\ clampWindow(1, 4, 2) = [startPage |-> 1, endPage |-> 2]
    /\ pageFromIndex(11, 3) > 2
    /\ clampWindow(pageFromIndex(9, 3), 4, 2) = [startPage |-> 3, endPage |-> 4]

\* C12: a visible-range report takes the jump branch exactly when its pages
\* are not covered by the window (topPage < startPage or bottomPage >
\* endPage); the window is then clampWindow of the new current page, whatever
\* the edge tests would say.
JumpsWhenUncovered ==
    /\ [](JumpExample)
    /\ [][(last'.op = "handleVisibleRange") =>
            IF ReportUncovered(last', pageWindow)
            THEN /\ last'.branch \in {"jump", "jumpSame"}
                 /\ pageWindow' = clampWindow(currentPage', totalPages,
                                              effectiveWindowSize)
            ELSE last'.branch \notin {"jump", "jumpSame"}]_vars

\* C12 witness: a report of pages behind the window has jumped it back to page 1
JumpsWhenUncoveredWitness ==
    /\ last.op = "handleVisibleRange"
    /\ ReportUncovered(last, rendered.pageWindow)
    /\ rendered.pageWindow.startPage > 1
    /\ pageWindow.startPage = 1
    /\ pageWindow.endPage < rendered.pageWindow.startPage

SameWindowNoReconcile ==
    /\ [][(/\ last'.op \in {"scrollToPage", "goToNextPage", "onVisibleBottom",
                            "handleVisibleRange"}
           /\ pageWindow'.startPage = pageWindow.startPage
           /\ pageWindow'.endPage = pageWindow.endPage)
          => /\ pages' = pages
             /\ pagesNew' = pagesNew
             /\ inflight' = inflight
             /\ fetchCalls' = fetchCalls
             /\ effects' = <<>>]_vars
    /\ [][(/\ last'.op = "render"
           /\ ~pagesNew
           /\ pageWindow.startPage = rendered.pageWindow.startPage
           /\ pageWindow.endPage = rendered.pageWindow.endPage)
          => /\ effects' = <<>>
             /\ pages' = pages
             /\ inflight' = inflight
             /\ fetchCalls' = fetchCalls]_vars

\* C14 witness: the render after a slide that kept the window bounds but
\* changed the current page has run, with pages of the window being fetched
SameWindowNoReconcileWitness ==
    /\ last.op = "render"
    /\ effects = <<>>
    /\ inflight # {}
    /\ currentPage > pageWindow.startPage
    /\ pendingJumpPage = 0
    /\ initialPage = 1
    /\ pageWindow.startPage = 1
\* a report pins when a jump is pending for a page of its range
ReportCoversPending(l) ==
    /\ pendingJumpPage # 0
    /\ ReportTop(l) <= pendingJumpPage
    /\ pendingJumpPage <= ReportBottom(l)

\* C15: scrollToPage(t) leaves t (clamped into [1, totalPages]) pending; a
\* report whose pages do not contain the pending page, and every render,
\* effect and fetch completion, leave it pending; a report whose pages
\* contain it sets currentPage to it, not to topPage, and consumes it.
PendingJumpPins ==
    /\ [][(last'.op = "scrollToPage" /\ totalPages >= 1) =>
            pendingJumpPage' = Min(Max(1, last'.target), totalPages)]_vars
    /\ [][(last'.op \notin {"scrollToPage", "goToNextPage", "onVisibleBottom",
                            "handleVisibleRange"}) =>
            pendingJumpPage' = pendingJumpPage]_vars
    /\ [][(last'.op = "handleVisibleRange") =>
            IF ReportCoversPending(last')
            THEN currentPage' = pendingJumpPage /\ pendingJumpPage' = 0
            ELSE pendingJumpPage' = pendingJumpPage]_vars

\* C15 witness: a report whose top page is before the pending page has pinned
\* the current page to it, below a page already made accessible
PendingJumpPinsWitness ==
    /\ last.op = "handleVisibleRange"
    /\ last.pinned
    /\ pendingJumpPage = 0
    /\ ReportTop(last) < currentPage
    /\ currentPage <= ReportBottom(last)
    /\ maxAccessiblePage > ReportBottom(last)

\* C16: a report that does not pin sets currentPage to
\* floor(resolved start index / pageSize) + 1; every report calls onPageChange
\* once, with the new page, when currentPage changes and not at all otherwise.
ReportSetsCurrentPage ==
    [][(last'.op = "handleVisibleRange") =>
        /\ ~ReportCoversPending(last') =>
                currentPage' = (last'.globalStart \div pageSize) + 1
        /\ last'.onPageChange = IF currentPage' # currentPage
                                THEN <<currentPage'>> ELSE <<>>]_vars

\* C16 witness: a report with no jump pending has moved the current page from
\* page 1 and notified the host once
ReportSetsCurrentPageWitness ==
    /\ last.op = "handleVisibleRange"
    /\ ~last.pinned
    /\ pendingJumpPage = 0
    /\ rendered.currentPage = 1
    /\ currentPage = ReportTop(last)
    /\ last.onPageChange = <<ReportTop(last)>>
    /\ ReportTop(last) > 1
\* C17: when the effects of the last event have run and nothing is left to
\* render, isFetching is true exactly when some tracked page is loading.
IsFetchingMatchesLoading ==
    Settled => (isFetching <=> \E p \in Tracked : pages[p].status = "loading")

\* C17 witness: at rest with one page loaded and another still loading
IsFetchingMatchesLoadingWitness ==
    /\ Settled
    /\ isFetching
    /\ \E p \in Tracked : pages[p].status = "loaded"
    /\ \E p \in Tracked : pages[p].status = "loading"

\* C18: reloadPage(p) for a tracked page makes its record idle, the fetch
\* effect of the next render calls fetchPage(p) and marks it loading, and the
\* page then becomes loaded or error.
ReloadMarksIdle ==
    [][(last'.op = "reloadPage" /\ last'.page \in Tracked) =>
            pages' = SetRecord(pages, last'.page, IdleRecord(last'.page))]_vars

ReloadRefetches ==
    [][(last.op = "render" /\ last'.op = "fetchEffect") =>
            \A p \in DOMAIN rendered.pages :
                rendered.pages[p].status = "idle" =>
                    /\ p \in last'.missing
                    /\ fetchCalls'[p] >= 1
                    /\ pages'[p].status = "loading"]_vars

ReloadCompletes ==
    \A p \in 1..MaxTotalPages :
        (last.op = "reloadPage" /\ last.page = p /\ p \in Tracked)
            ~> (p \in Tracked /\ pages[p].status \in {"loaded", "error"})

ReloadRunsToCompletion ==
    /\ ReloadMarksIdle
    /\ ReloadRefetches
    /\ ReloadCompletes

\* C19: reloadPage(p) for a page that is not tracked changes no state cell,
\* leaves nothing to render and no effect to run, and issues no fetch.
ReloadUntrackedNoOp ==
    [][(last'.op = "reloadPage" /\ last'.page \notin Tracked) =>
            /\ cells' = cells
            /\ pendingJumpPage' = pendingJumpPage
            /\ inflight' = inflight
            /\ fetchCalls' = fetchCalls
            /\ effects' = <<>>
            /\ ~NeedsRender']_vars

\* C19 witness: a reload of a page of the dataset outside the window returned
\* with the store as it was
ReloadUntrackedNoOpWitness ==
    /\ last.op = "reloadPage"
    /\ last.page \notin Tracked
    /\ last.page <= totalPages
    /\ Settled
    /\ \E p \in Tracked : pages[p].status = "loaded"

\* C20: fetchPage is only called for pages of the window of the moment, which
\* are pages of [1, totalPages]; no call is made for a page outside it, in
\* particular for the pages a jump passes over; the first batch after mount is
\* the initial window.
FetchesOnlyInWindow ==
    /\ [][(last'.op = "fetchEffect") =>
            /\ last'.missing \subseteq WindowPages(pageWindow)
            /\ last'.missing \subseteq 1..totalPages]_vars
    /\ [][\A p \in DOMAIN fetchCalls :
            fetchCalls'[p] > fetchCalls[p] =>
                p \in WindowPages(pageWindow) /\ p \in last'.missing]_vars
    /\ [][(/\ last'.op = "fetchEffect"
           /\ last'.missing # {}
           /\ pendingJumpPage = 0
           /\ \A p \in Tracked : pages[p].status = "idle")
          => last'.missing = WindowPages(clampWindow(initialPage, totalPages,
                                                     effectiveWindowSize))]_vars

\* C20 witness: after a jump from a window at page 1 to a window past page 2
\* the fetch effect has requested the pages of the new window, and page 2,
\* which the jump passed over, was never tracked
FetchesOnlyInWindowWitness ==
    /\ last.op = "fetchEffect"
    /\ last.missing = WindowPages(pageWindow)
    /\ initialPage = 1
    /\ windowSize = 1
    /\ pageWindow.startPage = 3
    /\ pendingJumpPage = 3
    /\ maxAccessiblePage = 3
    /\ currentPage = 3
\* what scrollToPage returned, against the window the jump set
JumpIndices ==
    LET c == Min(Max(1, last.target), totalPages)
    IN  /\ last.targetGlobalIndex = (c - 1) * pageSize
        /\ last.targetWindowOffset = (pageWindow.startPage - 1) * pageSize

JumpIndexInsideWindow ==
    /\ last.targetWindowOffset <= last.targetGlobalIndex
    /\ last.targetGlobalIndex <
            last.targetWindowOffset
                + (pageWindow.endPage - pageWindow.startPage + 1) * pageSize

JumpOffsetExposed ==
    [][(last.op = "scrollToPage" /\ last'.op = "render") =>
            windowOffset' = last.targetWindowOffset]_vars

\* C21 as stated: scrollToPage(p) returns targetGlobalIndex = (c - 1) *
\* pageSize for c = p clamped into [1, totalPages] and targetWindowOffset =
\* (startPage - 1) * pageSize of the new window, the first lies inside the
\* index range of the new window, and the second is the windowOffset of the
\* next render.
JumpReturnsIndices ==
    /\ []((last.op = "scrollToPage") => (JumpIndices /\ JumpIndexInsideWindow))
    /\ JumpOffsetExposed

\* C21 amended: the same, with the target index inside the index range of the
\* new window when totalPages >= 1.
JumpReturnsIndicesNonEmpty ==
    /\ []((last.op = "scrollToPage") =>
            /\ JumpIndices
            /\ totalPages >= 1 => JumpIndexInsideWindow)
    /\ JumpOffsetExposed

\* C21 witness: a jump has returned a target index past the start of the
\* window it set, which does not start at page 1
JumpReturnsIndicesNonEmptyWitness ==
    /\ last.op = "scrollToPage"
    /\ totalPages >= 1
    /\ last.targetWindowOffset > 0
    /\ last.targetGlobalIndex > last.targetWindowOffset
SlotsShowLoadedItems ==
    \A list \in {items} : \A k \in 1..Len(list) :
        LET s == list[k]
            filled == /\ s.page \in DOMAIN rendered.pages
                      /\ rendered.pages[s.page].status = "loaded"
                      /\ s.indexInPage < Len(rendered.pages[s.page].items)
        IN  /\ s.globalIndex = (s.page - 1) * pageSize + s.indexInPage
            /\ s.isPlaceholder = ~filled
            /\ s.item = IF filled
                        THEN <<rendered.pages[s.page].items[s.indexInPage + 1]>>
                        ELSE <<>>

\* C23 witness: a render showing a loaded page one item short next to a page
\* that is still loading
SlotsShowLoadedItemsWitness ==
    \E list \in {items} :
        /\ \E k \in 1..Len(list) :
                /\ ~list[k].isPlaceholder
                /\ list[k].item = <<Item(list[k].page, list[k].indexInPage)>>
        /\ \E k \in 1..Len(list) :
                /\ list[k].isPlaceholder
                /\ list[k].page \in DOMAIN rendered.pages
                /\ rendered.pages[list[k].page].status = "loaded"
        /\ \E k \in 1..Len(list) :
                /\ list[k].page \in DOMAIN rendered.pages
                /\ rendered.pages[list[k].page].status = "loading"

\* C24: the items list has windowSize * pageSize slots in every state.
ItemsFillWindowSize == Len(items) = windowSize * pageSize
\* the arguments of the builder, clamped as the claims clamp them
PagerTotal == rendered.maxAccessiblePage
PagerCurrent == Min(Max(1, rendered.currentPage), rendered.maxAccessiblePage)

\* C25: the list is empty exactly when maxAccessiblePage < 1; otherwise it
\* starts with prev (page max(1, c - 1), disabled iff c <= 1), ends with next
\* (page min(total, c + 1), disabled iff c >= total), and has no other prev
\* or next item.
PrevNextFrame ==
    (last.op = "paginationItems") =>
        LET list == last.items
            c == PagerCurrent
            total == PagerTotal
        IN  /\ (list = <<>>) <=> (total < 1)
            /\ total >= 1 =>
                /\ Len(list) >= 2
                /\ list[1] = [type |-> "prev",
                              page |-> IF c - 1 >= 1 THEN c - 1 ELSE 1,
                              disabled |-> (c <= 1)]
                /\ list[Len(list)] = [type |-> "next",
                                      page |-> IF c + 1 <= total THEN c + 1 ELSE total,
                                      disabled |-> (c >= total)]
                /\ \A k \in 2..(Len(list) - 1) :
                        list[k].type \notin {"prev", "next"}

\* C25 witness: a list for the last of more than seven pages, next disabled
PrevNextFrameWitness ==
    /\ last.op = "paginationItems"
    /\ PagerTotal > 7
    /\ rendered.currentPage = PagerTotal
    /\ last.items[Len(last.items)].disabled
    /\ ~last.items[1].disabled

\* the page numbers between prev and next, 0 standing for an ellipsis
PagerShape(list) ==
    [k \in 1..(Len(list) - 2) |->
        IF list[k + 1].type = "page" THEN list[k + 1].page
        ELSE IF list[k + 1].type = "ellipsis" THEN 0 ELSE 0 - 1]

PagerRange(from, to) == [k \in 1..(to - from + 1) |-> from + k - 1]

PagerExamples ==
    /\ buildAmazonStylePagination(1, 0) = <<>>
    /\ buildAmazonStylePagination(1, 3) =
            << [type |-> "prev", page |-> 1, disabled |-> TRUE],
               [type |-> "page", page |-> 1, isCurrent |-> TRUE],
               [type |-> "page", page |-> 2, isCurrent |-> FALSE],
               [type |-> "page", page |-> 3, isCurrent |-> FALSE],
               [type |-> "next", page |-> 2, disabled |-> FALSE] >>
    /\ buildAmazonStylePagination(5, 20) =
            << [type |-> "prev", page |-> 4, disabled |-> FALSE],
               [type |-> "page", page |-> 1, isCurrent |-> FALSE],
               [type |-> "ellipsis"],
               [type |-> "page", page |-> 4, isCurrent |-> FALSE],
               [type |-> "page", page |-> 5, isCurrent |-> TRUE],
               [type |-> "page", page |-> 6, isCurrent |-> FALSE],
               [type |-> "ellipsis"],
               [type |-> "page", page |-> 20, isCurrent |-> FALSE],
               [type |-> "next", page |-> 6, disabled |-> FALSE] >>

\* C26: between prev and next the list shows pages 1..total when total <= 7;
\* else 1..5, ellipsis, total when c <= 4; else 1, ellipsis, total-4..total
\* when c >= total - 3; else 1, ellipsis, c-1, c, c+1, ellipsis, total.
TruncationRule ==
    /\ PagerExamples
    /\ (last.op = "paginationItems" /\ PagerTotal >= 1) =>
        LET c == PagerCurrent
            total == PagerTotal
        IN  PagerShape(last.items) =
                IF total <= 7 THEN PagerRange(1, total)
                ELSE IF c <= 4 THEN PagerRange(1, 5) \o <<0, total>>
                ELSE IF c >= total - 3 THEN <<1, 0>> \o PagerRange(total - 4, total)
                ELSE <<1, 0, c - 1, c, c + 1, 0, total>>

\* C26 witness: a list with both ellipses, the current page just short of
\* the tail
TruncationRuleWitness ==
    /\ last.op = "paginationItems"
    /\ PagerTotal > 8
    /\ PagerCurrent = PagerTotal - 4
    /\ Len(last.items) = 9
    /\ last.items[3] = EllipsisItem
    /\ last.items[7] = EllipsisItem

\* C27: with maxAccessiblePage >= 1, exactly one item of the list has
\* isCurrent true; it is a page item for the current page clamped into
\* [1, maxAccessiblePage].
ExactlyOneCurrent ==
    (last.op = "paginationItems" /\ PagerTotal >= 1) =>
        LET list == last.items
            marked == {k \in 1..Len(list) :
                          "isCurrent" \in DOMAIN list[k] /\ list[k].isCurrent}
        IN  /\ Cardinality(marked) = 1
            /\ \A k \in marked :
                    list[k].type = "page" /\ list[k].page = PagerCurrent

\* C27 witness: a current page past maxAccessiblePage is shown as the last of
\* a truncated list
ExactlyOneCurrentWitness ==
    /\ last.op = "paginationItems"
    /\ PagerTotal > 7
    /\ rendered.currentPage > PagerTotal
    /\ last.items[Len(last.items) - 1].isCurrent
    /\ last.items[Len(last.items) - 1].page = PagerTotal
\* C28: onVisibleBottom changes state exactly when maxAccessiblePage <
\* totalPages and isFetching is false; it then jumps to min(totalPages,
\* max(currentPage + 1, maxAccessiblePage + 1)): currentPage advances,
\* maxAccessiblePage grows by one and the pagination list holds the new page.
\* Otherwise every state cell is left as it was.
SentinelAdvances ==
    [][(last'.op = "onVisibleBottom") =>
        IF maxAccessiblePage < totalPages /\ ~isFetching
        THEN LET target == Min(totalPages, Max(currentPage + 1, maxAccessiblePage + 1))
             IN  /\ currentPage' = target
                 /\ currentPage' > currentPage
                 /\ maxAccessiblePage' = maxAccessiblePage + 1
                 /\ pageWindow' = clampWindow(target, totalPages, effectiveWindowSize)
                 /\ pages' = pages
                 /\ \E item \in {buildAmazonStylePagination(currentPage', maxAccessiblePage')[k] :
                                 k \in 1..Len(buildAmazonStylePagination(currentPage',
                                                                         maxAccessiblePage'))} :
                        item.type = "page" /\ item.page = target
        ELSE cells' = cells /\ pendingJumpPage' = pendingJumpPage]_vars

\* C28 witness: with every page of the window loaded the sentinel has moved
\* the hook on to the next page
SentinelAdvancesWitness ==
    /\ last.op = "onVisibleBottom"
    /\ last.target > 1
    /\ currentPage = last.target
    /\ maxAccessiblePage = last.target
    /\ rendered.maxAccessiblePage = last.target - 1
    /\ \A p \in Tracked : pages[p].status = "loaded"
    /\ Tracked # {}
\* C29: hasNextPage is true exactly when currentPage < totalPages.
HasNextBeyondCurrent == hasNextPage <=> (rendered.currentPage < totalPages)

\* the raw index pair of a report, from what it resolved to and how
ReportRawStart(l) ==
    IF l.indicesAreGlobal THEN l.globalStart ELSE l.globalStart - windowOffset
ReportRawStop(l) ==
    IF l.indicesAreGlobal THEN l.globalStop ELSE l.globalStop - windowOffset

\* the test of C30 for reading a raw pair as window-relative, count being
\* the number of items
ReadsAsRelative(start, stop, count) ==
    /\ ((windowOffset + start) \div pageSize) + 1 >= pageWindow.startPage
    /\ ((windowOffset + stop) \div pageSize) + 1 <= pageWindow.endPage
    /\ start < count
    /\ stop < count

\* C30: a report of kind auto resolves its pair to windowOffset + raw index
\* when both resolved indices fall on pages of the window and neither raw
\* index reaches the number of items, and to the raw pair otherwise; for a
\* pair of valid offsets into the items list it leaves currentPage,
\* maxAccessiblePage and the window as a report of kind relative would.
AutoResolvesIndices ==
    [][(last'.op = "handleVisibleRange" /\ last'.indexType = "auto") =>
        \A count \in {Len(items)} :
            LET start == ReportRawStart(last')
                stop == ReportRawStop(last')
                shift == IF ReadsAsRelative(start, stop, count)
                         THEN windowOffset ELSE 0
            IN  /\ last'.globalStart = shift + start
                /\ last'.globalStop = shift + stop
                /\ (0 <= start /\ start <= stop /\ stop < count) =>
                    \A r \in {VisibleRange(start, stop, "relative")} :
                        /\ currentPage' = r.nextPage
                        /\ maxAccessiblePage' =
                                Max(maxAccessiblePage, r.furthestVisiblePage)
                        /\ pageWindow' = r.desiredWindow]_vars

\* C30 witness: in a window past page 1 a report of kind auto with offsets
\* into the items list has been read as relative and has moved the current page
AutoResolvesIndicesWitness ==
    /\ last.op = "handleVisibleRange"
    /\ last.indexType = "auto"
    /\ ~last.indicesAreGlobal
    /\ rendered.pageWindow.startPage > 1
    /\ last.globalStart > (rendered.pageWindow.startPage - 1) * pageSize
    /\ last.globalStop >= last.globalStart
    /\ last.onPageChange # <<>>
\* C31: in useInfinitePagination currentPage stays within
\* [1, max(1, totalPages)], and each setPage, goToNextPage or onVisibleBottom
\* calls onPageChange once with the new page when it changes currentPage and
\* not at all when it leaves it unchanged.
PaginationCalls == {"setPage", "goToNextPage", "onVisibleBottom"}

PageClampedAndNotified ==
    /\ [](1 <= currentPage /\ currentPage <= (IF totalPages >= 1 THEN totalPages ELSE 1))
    /\ [][(last'.op \in PaginationCalls) =>
            last'.onPageChange = IF currentPage' # currentPage
                                 THEN <<currentPage'>> ELSE <<>>]_vars
    /\ [][(last'.op = "setPage" /\ last'.argument = currentPage) =>
            currentPage' = currentPage /\ last'.onPageChange = <<>>]_vars
    /\ [][(last'.op = "goToNextPage" /\ currentPage >= totalPages) =>
            currentPage' = currentPage /\ last'.onPageChange = <<>>]_vars

\* C31 witness: setPage past the last page has moved the hook to the last
\* page and notified the host of that page
PageClampedAndNotifiedWitness ==
    /\ last.op = "setPage"
    /\ last.argument > totalPages
    /\ totalPages >= 2
    /\ currentPage = totalPages
    /\ last.onPageChange = <<totalPages>>
\* C32: for a page that stays tracked, no operation moves its record out of
\* loading to a status other than loaded or error.
LoadingOnlySettles ==
    [][\A p \in Tracked \cap Tracked' :
          pages[p].status = "loading" =>
              pages'[p].status \in {"loading", "loaded", "error"}]_vars

\* C33: every tracked record carries its own key as page, items iff its
\* status is loaded, and an error value iff its status is error.
RecordsWellFormed ==
    \A p \in Tracked :
        /\ pages[p].page = p
        /\ pages[p].status \in {"idle", "loading", "loaded", "error"}
        /\ ("items" \in DOMAIN pages[p]) <=> (pages[p].status = "loaded")
        /\ ("error" \in DOMAIN pages[p]) <=> (pages[p].status = "error")
        /\ DOMAIN pages[p] \subseteq {"page", "status", "items", "error"}

\* C33 witness: a loaded record and a failed record are tracked together
RecordsWellFormedWitness ==
    \E p, q \in Tracked :
        /\ pages[p].status = "loaded"
        /\ pages[q].status = "error"
\* C34: reconciliation discards the record of every page outside the window
\* and gives every page that enters it a fresh idle record without items;
\* the fetch effect then issues a new fetchPage call for each idle page of
\* the window, whatever the page had held during an earlier residency.
LeavingPagesForgotten ==
    /\ [][last'.op = "reconcile" =>
            /\ Tracked' = WindowPages(rendered.pageWindow)
            /\ \A p \in Tracked' \ Tracked : pages'[p] = IdleRecord(p)]_vars
    /\ [][last'.op = "fetchEffect" =>
            \A p \in WindowPages(rendered.pageWindow) \cap DOMAIN rendered.pages :
                rendered.pages[p].status = "idle" =>
                    /\ p \in last'.missing
                    /\ [page |-> p, live |-> TRUE] \in inflight'
                    /\ fetchCalls'[p] = Min(MaxCalls, fetchCalls[p] + 1)]_vars

\* C34 witness: with a window of one page that started on page 1 and has
\* been moved to a later page, a jump back to page 1 has brought page 1 in
\* again and its second fetchPage call has just been issued
LeavingPagesForgottenWitness ==
    /\ initialPage = 1
    /\ effectiveWindowSize = 1
    /\ maxAccessiblePage >= 2
    /\ pendingJumpPage = 1
    /\ last.op = "fetchEffect"
    /\ last.missing = {1}
    /\ fetchCalls[1] = 2
    /\ pages[1].status = "loading"
\* The window handleVisibleRange leaves when it is called with window w, the
\* pending jump target pending and a report of the pages top..bottom.
ReportedWindow(w, pending, top, bottom) ==
    LET pinned == pending # 0 /\ pending >= top /\ pending <= bottom
        nextPage == IF pinned THEN pending ELSE top
        nearTop == top < w.startPage + prefetchThresholdPages
        nearBottom == bottom > w.endPage - prefetchThresholdPages
    IN  IF ~(top >= w.startPage /\ bottom <= w.endPage)
        THEN clampWindow(nextPage, totalPages, effectiveWindowSize)
        ELSE IF nearTop /\ w.startPage > 1
        THEN clampWindow(Max(1, top), totalPages, effectiveWindowSize)
        ELSE IF nearBottom /\ w.endPage < totalPages
        THEN clampWindow(Min(totalPages, bottom), totalPages, effectiveWindowSize)
        ELSE w

ReportInsideDataset(l) ==
    /\ 0 <= l.globalStart
    /\ l.globalStart <= l.globalStop
    /\ l.globalStop <= totalPages * pageSize - 1

\* C35: after a global-kind report with start <= stop inside the dataset,
\* the same report made again leaves pageWindow unchanged.
RepeatedReportStable ==
    [][(/\ last'.op = "handleVisibleRange"
        /\ last'.indexType = "global"
        /\ ReportInsideDataset(last')) =>
            /\ pageWindow' = ReportedWindow(pageWindow, pendingJumpPage,
                                            ReportTop(last'), ReportBottom(last'))
            /\ ReportedWindow(pageWindow', pendingJumpPage',
                              ReportTop(last'), ReportBottom(last')) = pageWindow']_vars
\* C36: with prefetchThresholdPages >= 1, a report that takes the slide-down
\* branch leaves a window with a strictly larger endPage and a report that
\* takes the slide-up branch leaves one with a strictly smaller startPage.
SlideMakesProgress ==
    [][(last'.op = "handleVisibleRange" /\ prefetchThresholdPages >= 1) =>
            /\ last'.branch = "slideDown" => pageWindow'.endPage > pageWindow.endPage
            /\ last'.branch = "slideUp" => pageWindow'.startPage < pageWindow.startPage]_vars

\* C36 as amended: with prefetchThresholdPages >= 1 and a report whose
\* topPage is at most its bottomPage, the slide-down branch never leaves a
\* smaller endPage, and the slide-up branch never leaves a larger startPage
\* when prefetchThresholdPages <= floor(windowSize / 2) + 1; the window may
\* stay as it is.
SlideNeverRetreats ==
    [][(/\ last'.op = "handleVisibleRange"
        /\ prefetchThresholdPages >= 1
        /\ ReportTop(last') <= ReportBottom(last')) =>
            /\ last'.branch = "slideDown" => pageWindow'.endPage >= pageWindow.endPage
            /\ (/\ last'.branch = "slideUp"
                /\ prefetchThresholdPages <= (effectiveWindowSize \div 2) + 1)
                    => pageWindow'.startPage <= pageWindow.startPage]_vars

\* C36 witness: a report of the last page of the window [1,2] has taken the
\* slide-down branch and the recomputed window is [1,2] again
SlideNeverRetreatsWitness ==
    /\ last.op = "handleVisibleRange"
    /\ last.branch = "slideDown"
    /\ prefetchThresholdPages >= 1
    /\ totalPages = 3
    /\ ReportTop(last) = 2
    /\ ReportBottom(last) = 2
    /\ rendered.pageWindow = [startPage |-> 1, endPage |-> 2]
    /\ pageWindow = rendered.pageWindow
\* C37: with 1 <= initialPage <= totalPages, after every scrollToPage call
\* and after every handleVisibleRange call whose resolved indices satisfy
\* 0 <= start <= stop <= totalPages * pageSize - 1, currentPage lies inside
\* the window: startPage <= currentPage <= endPage.
CurrentPageResident ==
    [][(/\ 1 <= initialPage /\ initialPage <= totalPages
        /\ \/ last'.op = "scrollToPage"
           \/ last'.op = "handleVisibleRange" /\ ReportInsideDataset(last')) =>
            /\ pageWindow'.startPage <= currentPage'
            /\ currentPage' <= pageWindow'.endPage]_vars
\* C38: with 1 <= initialPage <= totalPages, whenever currentPage is a page
\* of the dataset (as it is after every jump and every report whose resolved
\* indices lie inside the dataset) currentPage <= maxAccessiblePage, and the
\* page marked isCurrent in paginationItems is the rendered currentPage.
MarkedPages(list) ==
    {list[k].page : k \in {j \in 1..Len(list) :
                              "isCurrent" \in DOMAIN list[j] /\ list[j].isCurrent}}

CurrentPageAccessible ==
    (1 <= initialPage /\ initialPage <= totalPages) =>
        /\ (1 <= currentPage /\ currentPage <= totalPages) =>
                currentPage <= maxAccessiblePage
        /\ (1 <= rendered.currentPage /\ rendered.currentPage <= totalPages) =>
                /\ rendered.currentPage <= rendered.maxAccessiblePage
                /\ MarkedPages(paginationItems) = {rendered.currentPage}
        /\ (last.op = "handleVisibleRange" /\ ReportInsideDataset(last)) =>
                1 <= currentPage /\ currentPage <= totalPages
        /\ (last.op \in {"scrollToPage", "setPage", "goToNextPage", "onVisibleBottom"}
                /\ "targetGlobalIndex" \in DOMAIN last) =>
                1 <= currentPage /\ currentPage <= totalPages

\* C38 witness: a report of a later page has moved currentPage past the
\* initial page and the pagination rendered after it marks that page
CurrentPageAccessibleWitness ==
    /\ initialPage = 1
    /\ last.op = "render"
    /\ pendingJumpPage = 0
    /\ rendered.currentPage = 3
    /\ rendered.maxAccessiblePage = 3
    /\ MarkedPages(paginationItems) = {3}
\* C39: a pending jump target pins currentPage in at most one
\* handleVisibleRange call per jump: only a jump sets it, the call it pins
\* clears it, a later jump replaces it, and while none is pending every
\* report sets currentPage to its topPage, whatever pages it covers.
JumpCalls == {"scrollToPage", "setPage", "goToNextPage", "onVisibleBottom"}

PendingJumpPinsOnce ==
    /\ [][(last'.op = "handleVisibleRange" /\ last'.pinned) =>
            /\ pendingJumpPage # 0
            /\ currentPage' = pendingJumpPage
            /\ pendingJumpPage' = 0]_vars
    /\ [][(last'.op = "handleVisibleRange" /\ pendingJumpPage = 0) =>
            /\ ~last'.pinned
            /\ currentPage' = ReportTop(last')
            /\ pendingJumpPage' = 0]_vars
    /\ [][(pendingJumpPage' # pendingJumpPage /\ pendingJumpPage' # 0) =>
            /\ last'.op \in JumpCalls
            /\ "targetGlobalIndex" \in DOMAIN last']_vars
    /\ [][(last'.op \in JumpCalls /\ "targetGlobalIndex" \in DOMAIN last') =>
            /\ pendingJumpPage' = Min(Max(1, last'.target), totalPages)
            /\ currentPage' = pendingJumpPage']_vars

\* C39 witness: a report of the pages 2..3 has been pinned to the pending
\* page 3 of a jump made from page 1 and has consumed the pending target
PendingJumpPinsOnceWitness ==
    /\ last.op = "handleVisibleRange"
    /\ last.pinned
    /\ pendingJumpPage = 0
    /\ initialPage = 1
    /\ ReportTop(last) = 2
    /\ ReportBottom(last) = 3
    /\ currentPage = 3
====
